---- MODULE Spec2Model ----
(***************************************************************************)
(* Smart_Attendance: the session-scoped recognition-to-attendance pipeline *)
(* of app/api/sessions.py (start_session, process_frame, end_session) with *)
(* the matcher of app/services/face_logic.py and the tables of             *)
(* app/db/models.py.                                                       *)
(*                                                                         *)
(* Distances and confidences are fixed-point numbers in units of 1/One.    *)
(* Time is in seconds.                                                     *)
(***************************************************************************)
EXTENDS Integers, Sequences, FiniteSets, TLC

VARIABLES
    sessions,                \* table "sessions": row id = index
    session_frame_counters,  \* per server process: the module-level dict
    raw_detections,          \* table "raw_detections": row id = index
    attendance_logs,         \* table "attendance_logs": row id = index
    students,                \* table "students": the ids of the rows
    face_embeddings,         \* table "face_embeddings": rows [id, student_id]
    now,                     \* datetime.utcnow()
    reqs,                    \* process_frame calls in flight
    frames_issued,           \* per session: the frame numbers assigned so far
    last,                    \* the response sent by the step just taken
    users                    \* table "users": rows [username, hashed_password]

vars == <<sessions, session_frame_counters, raw_detections, attendance_logs,
          students, face_embeddings, now, reqs, frames_issued, last, users>>

(***************************************************************************)
(* Bounds of the model.                                                    *)
(***************************************************************************)
MaxFrames == 4
MaxFramesShort == 2
MaxFaces == 2
MaxDetections == 4
MaxTime == 31

(***************************************************************************)
(* Program constants.                                                      *)
(***************************************************************************)
One == 240
SIMILARITY_THRESHOLD == 120
REQUIRED_CONSECUTIVE_FRAMES == 3
WindowSeconds == 30
DefaultConfidence == 120
NoMatchDistance == 240

None == -1

SessionIds == {1, 2}
StudentIds == {1, 2}
Workers == {1, 2}
MainWorker == 1
Slots == {1, 2}
FirstSlot == {1}
TickSteps == {30, 31}
CoarseTickSteps == {31}
Distances == {60, SIMILARITY_THRESHOLD}

(***************************************************************************)
(* Small helpers.                                                          *)
(***************************************************************************)
RECURSIVE SumSeq(_)
SumSeq(s) == IF s = <<>> THEN 0 ELSE Head(s) + SumSeq(Tail(s))

SelectIdx(s, Test(_)) == {i \in 1..Len(s) : Test(s[i])}

RECURSIVE SetToSortedSeq(_)
SetToSortedSeq(S) ==
    IF S = {} THEN <<>>
    ELSE LET m == CHOOSE x \in S : \A y \in S : x <= y
         IN <<m>> \o SetToSortedSeq(S \ {m})

(***************************************************************************)
(* face_logic.py: FaceLogic.identify_face.  A probe (the encoding of one   *)
(* detected face) is given by what face_recognition.face_distance returns  *)
(* for it: its distance to every stored embedding.                         *)
(***************************************************************************)
AllEmbeddings(embs) ==
    LET ids == SetToSortedSeq({e.id : e \in embs})
    IN [i \in 1..Len(ids) |-> CHOOSE e \in embs : e.id = ids[i]]

face_distance(rows, probe) == [i \in 1..Len(rows) |-> probe[rows[i].id]]

argmax(distances) ==
    CHOOSE i \in 1..Len(distances) :
        \A j \in 1..Len(distances) : distances[i] >= distances[j]

argmin(distances) ==
    CHOOSE i \in 1..Len(distances) :
        /\ \A j \in 1..Len(distances) : distances[i] <= distances[j]
        /\ \A j \in 1..(i - 1) : distances[j] > distances[i]

identify_face_inclusive(probe, embs, studs, threshold) ==
    LET all_embeddings == AllEmbeddings(embs) IN
    IF Len(all_embeddings) = 0
    THEN [student |-> None, dist |-> NoMatchDistance]
    ELSE LET distances == face_distance(all_embeddings, probe)
             min_distance_idx == argmin(distances)
             min_distance == distances[min_distance_idx]
         IN IF min_distance <= threshold
            THEN LET student_id == all_embeddings[min_distance_idx].student_id
                 IN [student |-> IF student_id \in studs THEN student_id ELSE None,
                     dist |-> min_distance]
            ELSE [student |-> None, dist |-> min_distance]

identify_face_rows(probe, all_embeddings, studs, threshold) ==
    IF Len(all_embeddings) = 0
    THEN [student |-> None, dist |-> NoMatchDistance]
    ELSE LET distances == face_distance(all_embeddings, probe)
             min_distance_idx == argmin(distances)
             min_distance == distances[min_distance_idx]
         IN IF min_distance < threshold
            THEN LET student_id == all_embeddings[min_distance_idx].student_id
                 IN [student |-> IF student_id \in studs THEN student_id ELSE None,
                     dist |-> min_distance]
            ELSE [student |-> None, dist |-> min_distance]

\* the rows of line 49 taken in id order, as a table scan of SQLite gives them
identify_face(probe, embs, studs, threshold) ==
    identify_face_rows(probe, AllEmbeddings(embs), studs, threshold)

(***************************************************************************)
(* sessions.py: the statements of process_frame's loop body.               *)
(***************************************************************************)
NewRawDetection(sid, student, frame_num, dist, t) ==
    [session_id |-> sid, student_id |-> student, frame_number |-> frame_num,
     distance |-> dist, is_static |-> FALSE, timestamp |-> t]

TimeWindowInMinutes(t) == t - 60 * WindowSeconds

TimeWindow(t) == t - WindowSeconds

InWindow(raws, sid, student, time_window) ==
    SelectIdx(raws, LAMBDA d : /\ d.session_id = sid
                               /\ d.student_id = student
                               /\ d.timestamp >= time_window)

DetectionCountAnyStudent(raws, sid, student, time_window) ==
    Cardinality(SelectIdx(raws, LAMBDA d : /\ d.session_id = sid
                                           /\ d.timestamp >= time_window))

\* the count without the session filter of line 69
DetectionCountAnySession(raws, sid, student, time_window) ==
    Cardinality({i \in 1..Len(raws) :
        /\ raws[i].student_id = student
        /\ raws[i].timestamp >= time_window})

DetectionCount(raws, sid, student, time_window) ==
    Cardinality(InWindow(raws, sid, student, time_window))

ExistingLogById(logs, sid, student) ==
    \E i \in 1..Len(logs) : /\ i = student
                            /\ logs[i].session_id = sid

ExistingLogSwappedKeys(logs, sid, student) ==
    \E i \in 1..Len(logs) : /\ logs[i].student_id = sid
                            /\ logs[i].session_id = student

ExistingLog(logs, sid, student) ==
    \E i \in 1..Len(logs) : /\ logs[i].student_id = student
                            /\ logs[i].session_id = sid

AvgDistance(raws, sid, student, time_window) ==
    LET idx == InWindow(raws, sid, student, time_window)
        rows == SetToSortedSeq(idx)
    IN IF idx = {} THEN None
       ELSE SumSeq([k \in 1..Len(rows) |-> raws[rows[k]].distance])
                \div Cardinality(idx)

ConfidenceScore(avg_dist) ==
    IF avg_dist # None /\ avg_dist # 0 THEN One - avg_dist ELSE DefaultConfidence

NewAttendanceLog(sid, student, confidence, t) ==
    [session_id |-> sid, student_id |-> student, status |-> "PRESENT",
     confidence_score |-> confidence, timestamp |-> t]

ThresholdReachedOffByOne(detection_count) ==
    detection_count > REQUIRED_CONSECUTIVE_FRAMES

ThresholdReached(detection_count) ==
    detection_count >= REQUIRED_CONSECUTIVE_FRAMES

FaceResult(tag, student, count) ==
    [tag |-> tag, student |-> student, count |-> count]

HandleFaceLogsUnknown(d, sid, frame_num, probe, t, embs, studs) ==
    LET m == identify_face(probe, embs, studs, SIMILARITY_THRESHOLD) IN
    IF m.student = None
    THEN [raws |-> Append(d.raws,
                       NewRawDetection(sid, None, frame_num, m.dist, t)),
          logs |-> d.logs,
          res |-> FaceResult("unknown", None, 0)]
    ELSE LET raws1 == Append(d.raws,
                        NewRawDetection(sid, m.student, frame_num, m.dist, t))
             time_window == TimeWindow(t)
             detection_count ==
                 DetectionCount(raws1, sid, m.student, time_window)
         IN IF ~ExistingLog(d.logs, sid, m.student)
            THEN IF ThresholdReached(detection_count)
                 THEN LET avg_dist ==
                              AvgDistance(raws1, sid, m.student, time_window)
                      IN [raws |-> raws1,
                          logs |-> Append(d.logs,
                                     NewAttendanceLog(sid, m.student,
                                         ConfidenceScore(avg_dist), t)),
                          res |-> FaceResult("marked", m.student,
                                             detection_count)]
                 ELSE [raws |-> raws1, logs |-> d.logs,
                       res |-> FaceResult("pending", m.student,
                                          detection_count)]
            ELSE [raws |-> raws1, logs |-> d.logs,
                  res |-> FaceResult("already", m.student, detection_count)]

(***************************************************************************)
(* One iteration of the loop over the encodings (lines 52-104), run        *)
(* without interruption: d = [raws, logs] is the database before, the      *)
(* result has the database after and the entry appended to                 *)
(* recognized_names.                                                       *)
(***************************************************************************)
HandleFace(d, sid, frame_num, probe, t, embs, studs) ==
    LET m == identify_face(probe, embs, studs, SIMILARITY_THRESHOLD) IN
    IF m.student = None
    THEN [raws |-> d.raws, logs |-> d.logs,
          res |-> FaceResult("unknown", None, 0)]
    ELSE LET raws1 == Append(d.raws,
                        NewRawDetection(sid, m.student, frame_num, m.dist, t))
             time_window == TimeWindow(t)
             detection_count ==
                 DetectionCount(raws1, sid, m.student, time_window)
         IN IF ~ExistingLog(d.logs, sid, m.student)
            THEN IF ThresholdReached(detection_count)
                 THEN LET avg_dist ==
                              AvgDistance(raws1, sid, m.student, time_window)
                      IN [raws |-> raws1,
                          logs |-> Append(d.logs,
                                     NewAttendanceLog(sid, m.student,
                                         ConfidenceScore(avg_dist), t)),
                          res |-> FaceResult("marked", m.student,
                                             detection_count)]
                 ELSE [raws |-> raws1, logs |-> d.logs,
                       res |-> FaceResult("pending", m.student,
                                          detection_count)]
            ELSE [raws |-> raws1, logs |-> d.logs,
                  res |-> FaceResult("already", m.student, detection_count)]

RECURSIVE HandleFaces(_, _, _, _, _, _, _)
HandleFaces(d, sid, frame_num, encodings, t, embs, studs) ==
    IF encodings = <<>> THEN [raws |-> d.raws, logs |-> d.logs, recognized |-> <<>>]
    ELSE LET one == HandleFace(d, sid, frame_num, Head(encodings), t, embs, studs)
             rest == HandleFaces([raws |-> one.raws, logs |-> one.logs], sid,
                                 frame_num, Tail(encodings), t, embs, studs)
         IN [raws |-> rest.raws, logs |-> rest.logs,
             recognized |-> <<one.res>> \o rest.recognized]

(***************************************************************************)
(* Requests and responses.                                                 *)
(***************************************************************************)
IdleReq ==
    [pc |-> "idle", worker |-> 0, session_id |-> 0, frame_num |-> 0,
     encodings |-> <<>>, faces_detected |-> 0, student |-> None,
     dist |-> 0, time_window |-> 0, detection_count |-> 0,
     avg_dist |-> None, recognized |-> <<>>]

Response(op, sid, status, frame, faces, recognized, total) ==
    [op |-> op, session_id |-> sid, status |-> status, frame |-> frame,
     faces_detected |-> faces, recognized |-> recognized,
     total_present |-> total]

NoResponse ==
    [op |-> "none", session_id |-> 0, status |-> 0, frame |-> 0,
     faces_detected |-> 0, recognized |-> <<>>, total_present |-> 0]

SessionExists(sid) == sid \in 1..Len(sessions)
SessionActive(sid) == SessionExists(sid) /\ sessions[sid].is_active

CounterGet(counters, sid) == IF counters[sid] = None THEN 0 ELSE counters[sid]

NextFrameNumberStale(counters, sid) == CounterGet(counters, sid)

NextFrameNumber(counters, sid) == CounterGet(counters, sid) + 1

TotalIssued == SumSeq([s \in SessionIds |-> Len(frames_issued[s])])

EmbIds == {e.id : e \in face_embeddings}
Probes == [EmbIds -> Distances]
Frames == UNION {[1..n -> Probes] : n \in 0..MaxFaces}

(***************************************************************************)
(* Init: an empty attendance database, two enrolled students with one      *)
(* embedding each, no session, an empty counter dict in every process.     *)
(***************************************************************************)
Init ==
    /\ sessions = <<>>
    /\ session_frame_counters = [w \in Workers |-> [s \in SessionIds |-> None]]
    /\ raw_detections = <<>>
    /\ attendance_logs = <<>>
    /\ students = StudentIds
    /\ face_embeddings = {[id |-> s, student_id |-> s] : s \in StudentIds}
    /\ now = 0
    /\ reqs = [r \in Slots |-> IdleReq]
    /\ frames_issued = [s \in SessionIds |-> <<>>]
    /\ last = NoResponse
    /\ users = {}

(***************************************************************************)
(* start_session (lines 16-24), served by process w.                       *)
(***************************************************************************)
start_session(w, ids) ==
    /\ Len(sessions) < Cardinality(ids)
    /\ LET id == Len(sessions) + 1 IN
        /\ sessions' = Append(sessions,
               [end_time |-> None, is_active |-> TRUE])
        /\ session_frame_counters' =
               [session_frame_counters EXCEPT ![w][id] = 0]
        /\ last' = Response("start_session", id, 200, 0, 0, <<>>, 0)
    /\ UNCHANGED <<raw_detections, attendance_logs, students, face_embeddings,
                   now, users, reqs, frames_issued>>

process_frame_begin_keeps_counter(w, r, sid, max_frames) ==
    /\ reqs[r].pc = "idle"
    /\ IF ~SessionActive(sid)
       THEN /\ last' = Response("process_frame", sid, 400, 0, 0, <<>>, 0)
            /\ UNCHANGED <<reqs, frames_issued>>
       ELSE /\ TotalIssued < max_frames
            /\ LET frame_num == NextFrameNumber(session_frame_counters[w], sid) IN
                /\ reqs' = [reqs EXCEPT ![r] =
                       [IdleReq EXCEPT !.pc = "await", !.worker = w,
                                       !.session_id = sid,
                                       !.frame_num = frame_num]]
                /\ frames_issued' =
                       [frames_issued EXCEPT ![sid] = Append(@, frame_num)]
            /\ last' = NoResponse
    /\ UNCHANGED <<sessions, session_frame_counters, raw_detections,
                   attendance_logs, students, face_embeddings, now, users>>

process_frame_begin_counts_first(w, r, sid, max_frames) ==
    /\ reqs[r].pc = "idle"
    /\ TotalIssued < max_frames
    /\ LET frame_num == NextFrameNumber(session_frame_counters[w], sid) IN
        /\ session_frame_counters' =
               [session_frame_counters EXCEPT ![w][sid] = frame_num]
        /\ IF ~SessionActive(sid)
           THEN /\ last' = Response("process_frame", sid, 400, 0, 0, <<>>, 0)
                /\ UNCHANGED <<reqs, frames_issued>>
           ELSE /\ reqs' = [reqs EXCEPT ![r] =
                       [IdleReq EXCEPT !.pc = "await", !.worker = w,
                                       !.session_id = sid,
                                       !.frame_num = frame_num]]
                /\ frames_issued' =
                       [frames_issued EXCEPT ![sid] = Append(@, frame_num)]
                /\ last' = NoResponse
    /\ UNCHANGED <<sessions, raw_detections, attendance_logs, students,
                   face_embeddings, now, users>>

(***************************************************************************)
(* process_frame up to its await (lines 39-47), served by process w:       *)
(* the session check and the frame counter.                                *)
(***************************************************************************)
process_frame_begin(w, r, sid, max_frames) ==
    /\ reqs[r].pc = "idle"
    /\ IF ~SessionActive(sid)
       THEN /\ last' = Response("process_frame", sid, 400, 0, 0, <<>>, 0)
            /\ UNCHANGED <<sessions, session_frame_counters, raw_detections,
                           attendance_logs, students, face_embeddings, now, users,
                           reqs, frames_issued>>
       ELSE /\ TotalIssued < max_frames
            /\ LET frame_num == NextFrameNumber(session_frame_counters[w], sid) IN
                /\ session_frame_counters' =
                       [session_frame_counters EXCEPT ![w][sid] = frame_num]
                /\ reqs' = [reqs EXCEPT ![r] =
                       [IdleReq EXCEPT !.pc = "await", !.worker = w,
                                       !.session_id = sid,
                                       !.frame_num = frame_num]]
                /\ frames_issued' =
                       [frames_issued EXCEPT ![sid] = Append(@, frame_num)]
            /\ last' = NoResponse
            /\ UNCHANGED <<sessions, raw_detections, attendance_logs, students,
                           face_embeddings, now, users>>

(***************************************************************************)
(* process_frame after its await (lines 47-110) in a single server         *)
(* process: the coroutine has no further await, so the event loop runs it  *)
(* to the return statement without interleaving another coroutine.         *)
(***************************************************************************)
process_frame_body(r, encodings) ==
    /\ reqs[r].pc = "await"
    /\ Len(raw_detections) + Len(encodings) <= MaxDetections
    /\ LET q == reqs[r]
           out == HandleFaces([raws |-> raw_detections, logs |-> attendance_logs],
                              q.session_id, q.frame_num, encodings, now,
                              face_embeddings, students)
       IN /\ raw_detections' = out.raws
          /\ attendance_logs' = out.logs
          /\ last' = Response("process_frame", q.session_id, 200, q.frame_num,
                              Len(encodings), out.recognized, 0)
    /\ reqs' = [reqs EXCEPT ![r] = IdleReq]
    /\ UNCHANGED <<sessions, session_frame_counters, students, face_embeddings,
                   now, users, frames_issued>>

(***************************************************************************)
(* end_session (lines 112-127), served by process w.                       *)
(***************************************************************************)
EndedRowToggle(row, t) ==
    [row EXCEPT !.end_time = t, !.is_active = ~row.is_active]

EndedRow(row, t) == [row EXCEPT !.end_time = t, !.is_active = FALSE]

CountLogs(logs, sid) ==
    Cardinality(SelectIdx(logs, LAMBDA l : l.session_id = sid))

end_session_purges_detections(w, sid) ==
    IF ~SessionExists(sid)
    THEN /\ last' = Response("end_session", sid, 404, 0, 0, <<>>, 0)
         /\ UNCHANGED <<sessions, session_frame_counters, raw_detections,
                        attendance_logs, students, face_embeddings, now, users, reqs,
                        frames_issued>>
    ELSE /\ sessions' = [sessions EXCEPT ![sid] = EndedRow(@, now)]
         /\ session_frame_counters' =
                [session_frame_counters EXCEPT ![w][sid] = None]
         /\ raw_detections' =
                SelectSeq(raw_detections, LAMBDA row : row.session_id # sid)
         /\ last' = Response("end_session", sid, 200, 0, 0, <<>>,
                             CountLogs(attendance_logs, sid))
         /\ UNCHANGED <<attendance_logs, students, face_embeddings, now, users, reqs,
                        frames_issued>>

end_session(w, sid) ==
    IF ~SessionExists(sid)
    THEN /\ last' = Response("end_session", sid, 404, 0, 0, <<>>, 0)
         /\ UNCHANGED <<sessions, session_frame_counters, raw_detections,
                        attendance_logs, students, face_embeddings, now, users, reqs,
                        frames_issued>>
    ELSE /\ sessions' = [sessions EXCEPT ![sid] = EndedRow(@, now)]
         /\ session_frame_counters' =
                [session_frame_counters EXCEPT ![w][sid] = None]
         /\ last' = Response("end_session", sid, 200, 0, 0, <<>>,
                             CountLogs(attendance_logs, sid))
         /\ UNCHANGED <<raw_detections, attendance_logs, students,
                        face_embeddings, now, users, reqs, frames_issued>>

(***************************************************************************)
(* The clock.                                                              *)
(***************************************************************************)
Tick(delta) ==
    /\ now + delta <= MaxTime
    /\ now' = now + delta
    /\ last' = NoResponse
    /\ UNCHANGED <<sessions, session_frame_counters, raw_detections,
                   attendance_logs, students, face_embeddings, reqs,
                   frames_issued, users>>

(***************************************************************************)
(* Spec: one server process (the default deployment) taking one session.   *)
(***************************************************************************)
FirstSession == {1}

StartSession == start_session(MainWorker, FirstSession)
ProcessFrameBegin == \E r \in FirstSlot, sid \in SessionIds :
                         process_frame_begin(MainWorker, r, sid, MaxFrames)
ProcessFrameBody == \E r \in Slots, encodings \in Frames :
                        process_frame_body(r, encodings)
EndSession == \E sid \in SessionIds : end_session(MainWorker, sid)
ClockTick == \E delta \in TickSteps : Tick(delta)

Next ==
    \/ StartSession
    \/ ProcessFrameBegin
    \/ ProcessFrameBody
    \/ EndSession
    \/ ClockTick

Spec == Init /\ [][Next]_vars

(***************************************************************************)
(* SpecSessions: one server process taking two sessions, with fewer        *)
(* frames.                                                                 *)
(***************************************************************************)
StartSessions == start_session(MainWorker, SessionIds)
ProcessSessionFrameBegin ==
    \E r \in FirstSlot, sid \in SessionIds :
        process_frame_begin(MainWorker, r, sid, MaxFramesShort)
CoarseClockTick == \E delta \in CoarseTickSteps : Tick(delta)

NextSessions ==
    \/ StartSessions
    \/ ProcessSessionFrameBegin
    \/ ProcessFrameBody
    \/ EndSession
    \/ CoarseClockTick

SpecSessions == Init /\ [][NextSessions]_vars

(***************************************************************************)
(* SpecConcurrent: one server process with two process_frame calls in      *)
(* flight on one session.  The coroutines interleave at the await of line  *)
(* 47 and nowhere else.                                                    *)
(***************************************************************************)
ConcurrentFrameBegin ==
    \E r \in Slots, sid \in SessionIds :
        process_frame_begin(MainWorker, r, sid, MaxFramesShort)

NextConcurrent ==
    \/ StartSession
    \/ ConcurrentFrameBegin
    \/ ProcessFrameBody
    \/ EndSession
    \/ CoarseClockTick

SpecConcurrent == Init /\ [][NextConcurrent]_vars

(***************************************************************************)
(* Several server processes on one database.  Each process has its own    *)
(* session_frame_counters dict, and the statements that the processes send *)
(* to the database interleave: every db.commit() and every query of the    *)
(* loop body is a step of its own.  reqs[w] is the call in flight at       *)
(* process w.                                                              *)
(***************************************************************************)
NextFace(q, res) ==
    [q EXCEPT !.pc = "loop", !.encodings = Tail(q.encodings),
              !.recognized = Append(q.recognized, res)]

\* lines 47-48: the image is read and its faces are encoded
pf_read(w, encodings) ==
    /\ reqs[w].pc = "await"
    /\ reqs[w].worker = w
    /\ Len(raw_detections) + Len(encodings) <= MaxDetections
    /\ reqs' = [reqs EXCEPT ![w] = [@ EXCEPT !.pc = "loop",
                                             !.encodings = encodings,
                                             !.faces_detected = Len(encodings)]]
    /\ last' = NoResponse
    /\ UNCHANGED <<sessions, session_frame_counters, raw_detections,
                   attendance_logs, students, face_embeddings, now, users,
                   frames_issued>>

\* lines 52-54 and 103-104: the next face is matched
pf_identify(w) ==
    /\ reqs[w].pc = "loop"
    /\ reqs[w].encodings # <<>>
    /\ LET q == reqs[w]
           m == identify_face(Head(q.encodings), face_embeddings, students,
                              SIMILARITY_THRESHOLD)
       IN reqs' = [reqs EXCEPT ![w] =
              IF m.student = None
              THEN NextFace(q, FaceResult("unknown", None, 0))
              ELSE [q EXCEPT !.pc = "log", !.student = m.student,
                             !.dist = m.dist]]
    /\ last' = NoResponse
    /\ UNCHANGED <<sessions, session_frame_counters, raw_detections,
                   attendance_logs, students, face_embeddings, now, users,
                   frames_issued>>

\* lines 56-64: the RawDetection is inserted and committed
pf_log_raw(w) ==
    /\ reqs[w].pc = "log"
    /\ LET q == reqs[w] IN
        raw_detections' = Append(raw_detections,
            NewRawDetection(q.session_id, q.student, q.frame_num, q.dist, now))
    /\ reqs' = [reqs EXCEPT ![w].pc = "count"]
    /\ last' = NoResponse
    /\ UNCHANGED <<sessions, session_frame_counters, attendance_logs, students,
                   face_embeddings, now, users, frames_issued>>

\* lines 67-72: the detections in the window are counted
pf_count(w) ==
    /\ reqs[w].pc = "count"
    /\ LET q == reqs[w]
           time_window == TimeWindow(now)
       IN reqs' = [reqs EXCEPT ![w] =
              [q EXCEPT !.pc = "existing", !.time_window = time_window,
                        !.detection_count =
                            DetectionCount(raw_detections, q.session_id,
                                           q.student, time_window)]]
    /\ last' = NoResponse
    /\ UNCHANGED <<sessions, session_frame_counters, raw_detections,
                   attendance_logs, students, face_embeddings, now, users,
                   frames_issued>>

\* lines 75-81 and 99-102: the existing log is looked up
pf_existing(w) ==
    /\ reqs[w].pc = "existing"
    /\ LET q == reqs[w] IN
        reqs' = [reqs EXCEPT ![w] =
            IF ~ExistingLog(attendance_logs, q.session_id, q.student)
            THEN IF ThresholdReached(q.detection_count)
                 THEN [q EXCEPT !.pc = "avg"]
                 ELSE NextFace(q, FaceResult("pending", q.student,
                                             q.detection_count))
            ELSE NextFace(q, FaceResult("already", q.student,
                                        q.detection_count))]
    /\ last' = NoResponse
    /\ UNCHANGED <<sessions, session_frame_counters, raw_detections,
                   attendance_logs, students, face_embeddings, now, users,
                   frames_issued>>

\* lines 83-87: the average distance in the window
pf_avg(w) ==
    /\ reqs[w].pc = "avg"
    /\ LET q == reqs[w] IN
        reqs' = [reqs EXCEPT ![w] =
            [q EXCEPT !.pc = "mark",
                      !.avg_dist = AvgDistance(raw_detections, q.session_id,
                                               q.student, q.time_window)]]
    /\ last' = NoResponse
    /\ UNCHANGED <<sessions, session_frame_counters, raw_detections,
                   attendance_logs, students, face_embeddings, now, users,
                   frames_issued>>

\* lines 89-98: the AttendanceLog is inserted and committed
pf_mark(w) ==
    /\ reqs[w].pc = "mark"
    /\ LET q == reqs[w] IN
        /\ attendance_logs' = Append(attendance_logs,
               NewAttendanceLog(q.session_id, q.student,
                                ConfidenceScore(q.avg_dist), now))
        /\ reqs' = [reqs EXCEPT ![w] =
               NextFace(q, FaceResult("marked", q.student, q.detection_count))]
    /\ last' = NoResponse
    /\ UNCHANGED <<sessions, session_frame_counters, raw_detections, students,
                   face_embeddings, now, users, frames_issued>>

\* lines 106-110: the response
pf_return(w) ==
    /\ reqs[w].pc = "loop"
    /\ reqs[w].encodings = <<>>
    /\ LET q == reqs[w] IN
        last' = Response("process_frame", q.session_id, 200, q.frame_num,
                         q.faces_detected, q.recognized, 0)
    /\ reqs' = [reqs EXCEPT ![w] = IdleReq]
    /\ UNCHANGED <<sessions, session_frame_counters, raw_detections,
                   attendance_logs, students, face_embeddings, now, users,
                   frames_issued>>

WorkerStartSession == \E w \in Workers : start_session(w, FirstSession)
WorkerFrameBegin ==
    \E w \in Workers, sid \in SessionIds :
        process_frame_begin(w, w, sid, MaxFramesShort)
\* the faces shown to the processes: student 1, or a stranger
WorkerProbes ==
    {p \in Probes : \A e \in EmbIds : p[e] = 60 => e = 1}
WorkerFrames ==
    {f \in Frames : \A i \in 1..Len(f) : f[i] \in WorkerProbes}
WorkerRead ==
    \E w \in Workers, encodings \in WorkerFrames : pf_read(w, encodings)
WorkerIdentify == \E w \in Workers : pf_identify(w)
WorkerLogRaw == \E w \in Workers : pf_log_raw(w)
WorkerCount == \E w \in Workers : pf_count(w)
WorkerExisting == \E w \in Workers : pf_existing(w)
WorkerAvg == \E w \in Workers : pf_avg(w)
WorkerMark == \E w \in Workers : pf_mark(w)
WorkerReturn == \E w \in Workers : pf_return(w)
WorkerEndSession == \E w \in Workers, sid \in SessionIds : end_session(w, sid)

NextWorkers ==
    \/ WorkerStartSession
    \/ WorkerFrameBegin
    \/ WorkerRead
    \/ WorkerIdentify
    \/ WorkerLogRaw
    \/ WorkerCount
    \/ WorkerExisting
    \/ WorkerAvg
    \/ WorkerMark
    \/ WorkerReturn
    \/ WorkerEndSession

SpecWorkers == Init /\ [][NextWorkers]_vars

(***************************************************************************)
(* SpecStatements: one server process, with process_frame taken statement  *)
(* by statement.  end_session is a plain def, which FastAPI runs on a      *)
(* worker thread, so it can come between any two statements of the         *)
(* coroutine.                                                              *)
(***************************************************************************)
StatementFrameBegin ==
    \E sid \in SessionIds :
        process_frame_begin(MainWorker, MainWorker, sid, MaxFramesShort)
StatementRead == \E encodings \in Frames : pf_read(MainWorker, encodings)
StatementIdentify == pf_identify(MainWorker)
StatementLogRaw == pf_log_raw(MainWorker)
StatementCount == pf_count(MainWorker)
StatementExisting == pf_existing(MainWorker)
StatementAvg == pf_avg(MainWorker)
StatementMark == pf_mark(MainWorker)
StatementReturn == pf_return(MainWorker)

NextStatements ==
    \/ StartSession
    \/ StatementFrameBegin
    \/ StatementRead
    \/ StatementIdentify
    \/ StatementLogRaw
    \/ StatementCount
    \/ StatementExisting
    \/ StatementAvg
    \/ StatementMark
    \/ StatementReturn
    \/ EndSession

SpecStatements == Init /\ [][NextStatements]_vars

(***************************************************************************)
(* admin_view.py: delete_student (lines 148-161), called by an admin.      *)
(* db.delete(student) deletes the student's embeddings (cascade of         *)
(* Student.embeddings) and sets student_id to NULL in the AttendanceLog    *)
(* rows of Student.attendance_records, which has no delete cascade.        *)
(* RawDetection.student_id is a foreign key without a relationship: a      *)
(* database that enforces foreign keys (PostgreSQL) rejects the delete     *)
(* while a detection refers to the student, one that does not (SQLite as   *)
(* configured in database.py) leaves the detections in place.              *)
(***************************************************************************)
NullifyStudent(logs, student_id) ==
    [i \in 1..Len(logs) |->
        IF logs[i].student_id = student_id
        THEN [logs[i] EXCEPT !.student_id = None]
        ELSE logs[i]]

\* db.delete(student) without the cascade of Student.embeddings
delete_student_keeps_embeddings(student_id, fk_enforced) ==
    IF student_id \notin students
    THEN /\ last' = Response("delete_student", 0, 303, 0, 0, <<>>, 0)
         /\ UNCHANGED <<sessions, session_frame_counters, raw_detections,
                        attendance_logs, students, face_embeddings, now, users,
                        reqs, frames_issued>>
    ELSE IF fk_enforced /\ \E i \in 1..Len(raw_detections) :
                               raw_detections[i].student_id = student_id
    THEN /\ last' = Response("delete_student", 0, 500, 0, 0, <<>>, 0)
         /\ UNCHANGED <<sessions, session_frame_counters, raw_detections,
                        attendance_logs, students, face_embeddings, now, users,
                        reqs, frames_issued>>
    ELSE /\ students' = students \ {student_id}
         /\ attendance_logs' = NullifyStudent(attendance_logs, student_id)
         /\ last' = Response("delete_student", 0, 303, 0, 0, <<>>, 0)
         /\ UNCHANGED <<sessions, session_frame_counters, raw_detections,
                        face_embeddings, now, users, reqs, frames_issued>>

delete_student(student_id, fk_enforced) ==
    IF student_id \notin students
    THEN /\ last' = Response("delete_student", 0, 303, 0, 0, <<>>, 0)
         /\ UNCHANGED <<sessions, session_frame_counters, raw_detections,
                        attendance_logs, students, face_embeddings, now, users, reqs,
                        frames_issued>>
    ELSE IF fk_enforced /\ \E i \in 1..Len(raw_detections) :
                               raw_detections[i].student_id = student_id
    THEN /\ last' = Response("delete_student", 0, 500, 0, 0, <<>>, 0)
         /\ UNCHANGED <<sessions, session_frame_counters, raw_detections,
                        attendance_logs, students, face_embeddings, now, users, reqs,
                        frames_issued>>
    ELSE /\ students' = students \ {student_id}
         /\ face_embeddings' =
                {e \in face_embeddings : e.student_id # student_id}
         /\ attendance_logs' = NullifyStudent(attendance_logs, student_id)
         /\ last' = Response("delete_student", 0, 303, 0, 0, <<>>, 0)
         /\ UNCHANGED <<sessions, session_frame_counters, raw_detections, now, users,
                        reqs, frames_issued>>

(***************************************************************************)
(* sessions.py: get_session_report (lines 129-142).  log.student is None   *)
(* for a row whose student_id is NULL, and log.student.full_name raises.   *)
(***************************************************************************)
ReportEntry(log) ==
    [student_id |-> log.student_id, status |-> log.status,
     confidence |-> log.confidence_score, time |-> log.timestamp]

SessionLogs(logs, sid) ==
    LET rows == SetToSortedSeq(SelectIdx(logs, LAMBDA l : l.session_id = sid))
    IN [k \in 1..Len(rows) |-> logs[rows[k]]]

get_session_report(sid) ==
    /\ LET logs == SessionLogs(attendance_logs, sid) IN
        IF \E k \in 1..Len(logs) : logs[k].student_id \notin students
        THEN last' = Response("get_session_report", sid, 500, 0, 0, <<>>, 0)
        ELSE last' = Response("get_session_report", sid, 200, 0, 0,
                              [k \in 1..Len(logs) |-> ReportEntry(logs[k])], 0)
    /\ UNCHANGED <<sessions, session_frame_counters, raw_detections,
                   attendance_logs, students, face_embeddings, now, users, reqs,
                   frames_issued>>

(***************************************************************************)
(* students.py: enroll_student (lines 12-56).  An image is given by what   *)
(* FaceLogic.process_image makes of it: the number of face encodings, or   *)
(* None for bytes that cv2.imdecode cannot decode (cvtColor then raises).  *)
(*                                                                         *)
(* Line 28 builds Student(full_name=..., student_id=...) and leaves        *)
(* institution_id unset; models.py line 77 declares that column            *)
(* nullable=False, so the commit of line 30 raises IntegrityError and the  *)
(* call ends there with status 500.                                        *)
(***************************************************************************)
ImageFaces == {0, 1, 2}
ImageCounts == {1, 2}
EnrollImages == UNION {[1..n -> ImageFaces \cup {None}] : n \in ImageCounts}
EnrollIds == {1, 3}

NewStudent(student_id) == [id |-> student_id, institution_id |-> None]

StudentInsertable(row) == row.institution_id # None

ValidImages(images) == {k \in 1..Len(images) : images[k] = 1}

Decodable(images) == \A k \in 1..Len(images) : images[k] # None

NextEmbeddingId(embs) ==
    IF embs = {} THEN 1
    ELSE 1 + (CHOOSE m \in {e.id : e \in embs} : \A e \in embs : e.id <= m)

NewEmbeddings(embs, student, images) ==
    LET valid == SetToSortedSeq(ValidImages(images))
    IN {[id |-> NextEmbeddingId(embs) + k - 1, student_id |-> student] :
           k \in 1..Len(valid)}

EnrollResponse(student_id, images, status, detail) ==
    Response("enroll_student", 0, status, 0, 0,
             <<[student_id |-> student_id, images |-> images,
                detail |-> detail]>>, 0)

enroll_student(student_id, images) ==
    IF student_id \in students
    THEN \* lines 24-26
         /\ last' = EnrollResponse(student_id, images, 400,
                                   "Student ID already exists")
         /\ UNCHANGED <<sessions, session_frame_counters, raw_detections,
                        attendance_logs, students, face_embeddings, now, users, reqs,
                        frames_issued>>
    ELSE IF ~StudentInsertable(NewStudent(student_id))
    THEN \* lines 28-30: the commit fails
         /\ last' = EnrollResponse(student_id, images, 500, "IntegrityError")
         /\ UNCHANGED <<sessions, session_frame_counters, raw_detections,
                        attendance_logs, students, face_embeddings, now, users, reqs,
                        frames_issued>>
    ELSE IF ~Decodable(images)
    THEN \* lines 30, 37: the student is committed, process_image raises
         /\ students' = students \cup {student_id}
         /\ last' = EnrollResponse(student_id, images, 500, "cv2.error")
         /\ UNCHANGED <<sessions, session_frame_counters, raw_detections,
                        attendance_logs, face_embeddings, now, users, reqs,
                        frames_issued>>
    ELSE IF ValidImages(images) = {}
    THEN \* lines 50-53
         /\ last' = EnrollResponse(student_id, images, 400,
                                   "No valid face embeddings found")
         /\ UNCHANGED <<sessions, session_frame_counters, raw_detections,
                        attendance_logs, students, face_embeddings, now, users, reqs,
                        frames_issued>>
    ELSE \* lines 39-44, 55-56
         /\ students' = students \cup {student_id}
         /\ face_embeddings' =
                face_embeddings \cup
                    NewEmbeddings(face_embeddings, student_id, images)
         /\ last' = EnrollResponse(student_id, images, 200, "")
         /\ UNCHANGED <<sessions, session_frame_counters, raw_detections,
                        attendance_logs, now, users, reqs, frames_issued>>

(***************************************************************************)
(* SpecStore: one server process and one session, with students being     *)
(* enrolled, the admin deleting students and the report being read at any  *)
(* time.                                                                   *)
(***************************************************************************)
StoreFrameBegin ==
    \E r \in FirstSlot, sid \in SessionIds :
        process_frame_begin(MainWorker, r, sid, MaxFramesShort)
DeleteStudent ==
    \E student_id \in StudentIds, fk_enforced \in BOOLEAN :
        delete_student(student_id, fk_enforced)
GetSessionReport == \E sid \in SessionIds : get_session_report(sid)
EnrollStudent ==
    \E student_id \in EnrollIds, images \in EnrollImages :
        enroll_student(student_id, images)

NextStore ==
    \/ StartSession
    \/ StoreFrameBegin
    \/ ProcessFrameBody
    \/ EndSession
    \/ DeleteStudent
    \/ GetSessionReport
    \/ EnrollStudent

SpecStore == Init /\ [][NextStore]_vars

(***************************************************************************)
(* SpecExact: one server process and one session, with frames of a single  *)
(* face that is student 1 at distance 0 (the stored image itself) or at    *)
(* distance 0.25.                                                          *)
(***************************************************************************)
ExactDistances == {0, 60}
ExactFrames ==
    {<<p>> : p \in {q \in [EmbIds -> ExactDistances \cup {NoMatchDistance}] :
                       \A e \in EmbIds : q[e] = NoMatchDistance <=> e # 1}}

ExactFrameBody ==
    \E r \in Slots, encodings \in ExactFrames : process_frame_body(r, encodings)

NextExact ==
    \/ StartSession
    \/ ProcessFrameBegin
    \/ ExactFrameBody
    \/ EndSession
    \/ CoarseClockTick

SpecExact == Init /\ [][NextExact]_vars

(***************************************************************************)
(* SpecLedger: the server is started on a database that already holds a    *)
(* session with ledger rows of the other statuses of AttendanceLog.status  *)
(* (models.py line 175: PRESENT, ABSENT, LATE; analytics.py counts all     *)
(* three).  No endpoint writes ABSENT or LATE, such rows are written to    *)
(* the database from outside.                                              *)
(***************************************************************************)
Statuses == {"PRESENT", "ABSENT", "LATE"}

SeededLedgers ==
    {<<>>} \cup
    {<<[session_id |-> 1, student_id |-> 2, status |-> st,
        confidence_score |-> None, timestamp |-> 0]>> : st \in Statuses}

InitLedger ==
    /\ sessions = <<[end_time |-> None, is_active |-> TRUE]>>
    /\ session_frame_counters = [w \in Workers |-> [s \in SessionIds |-> None]]
    /\ raw_detections = <<>>
    /\ attendance_logs \in SeededLedgers
    /\ students = StudentIds
    /\ face_embeddings = {[id |-> s, student_id |-> s] : s \in StudentIds}
    /\ now = 0
    /\ reqs = [r \in Slots |-> IdleReq]
    /\ frames_issued = [s \in SessionIds |-> <<>>]
    /\ last = NoResponse
    /\ users = {}

NextLedger ==
    \/ StartSessions
    \/ ProcessSessionFrameBegin
    \/ ProcessFrameBody
    \/ EndSession

SpecLedger == InitLedger /\ [][NextLedger]_vars

(***************************************************************************)
(* process_frame on bytes that are not an image: cv2.imdecode returns None *)
(* (face_logic.py line 21) and cv2.cvtColor raises on it (line 24).        *)
(* process_frame has no handler around line 48, so the exception ends the  *)
(* call and FastAPI answers with status 500.                               *)
(***************************************************************************)
process_frame_decode_error(r) ==
    /\ reqs[r].pc = "await"
    /\ last' = Response("process_frame", reqs[r].session_id, 500,
                        reqs[r].frame_num, 0, <<>>, 0)
    /\ reqs' = [reqs EXCEPT ![r] = IdleReq]
    /\ UNCHANGED <<sessions, session_frame_counters, raw_detections,
                   attendance_logs, students, face_embeddings, now, users,
                   frames_issued>>

(***************************************************************************)
(* SpecDecode: one server process and one session, with frames that can    *)
(* and frames that cannot be decoded.                                      *)
(***************************************************************************)
ProcessFrameDecodeError == \E r \in Slots : process_frame_decode_error(r)

NextDecode ==
    \/ StartSession
    \/ StoreFrameBegin
    \/ ProcessFrameBody
    \/ ProcessFrameDecodeError
    \/ EndSession

SpecDecode == Init /\ [][NextDecode]_vars

(***************************************************************************)
(* SpecMatcher: FaceLogic.identify_face called with every probe on every   *)
(* store of up to three embeddings.  The response of the call is the pair  *)
(* it returns, kept with the probe it was given.                           *)
(***************************************************************************)
MatcherEmbIds == {1, 2, 3}
MatcherDistances == {60, 90, SIMILARITY_THRESHOLD, 180}

Stores ==
    UNION {{{[id |-> i, student_id |-> owner[i]] : i \in ids} :
               owner \in [ids -> StudentIds]} : ids \in SUBSET MatcherEmbIds}

InitMatcher ==
    /\ sessions = <<>>
    /\ session_frame_counters = [w \in Workers |-> [s \in SessionIds |-> None]]
    /\ raw_detections = <<>>
    /\ attendance_logs = <<>>
    /\ students = StudentIds
    /\ face_embeddings \in Stores
    /\ now = 0
    /\ reqs = [r \in Slots |-> IdleReq]
    /\ frames_issued = [s \in SessionIds |-> <<>>]
    /\ last = NoResponse
    /\ users = {}

call_identify_face(probe) ==
    /\ LET m == identify_face(probe, face_embeddings, students,
                              SIMILARITY_THRESHOLD)
       IN last' = Response("identify_face", 0, 200, 0, 0,
                           <<[probe |-> probe, student |-> m.student,
                              dist |-> m.dist]>>, 0)
    /\ UNCHANGED <<sessions, session_frame_counters, raw_detections,
                   attendance_logs, students, face_embeddings, now, users, reqs,
                   frames_issued>>

NextMatcher == \E probe \in [EmbIds -> MatcherDistances] : call_identify_face(probe)

SpecMatcher == InitMatcher /\ [][NextMatcher]_vars

(***************************************************************************)
(* process_frame when the face capability raises: FaceLogic.process_image  *)
(* (line 48) or FaceLogic.identify_face (line 53) is called with no        *)
(* try/except around it, so the exception ends the call and FastAPI        *)
(* answers with status 500.  The counter was incremented at lines 44-45    *)
(* and every row of an earlier face of the frame was committed (lines 64   *)
(* and 96) before the exception: nothing rolls them back.                  *)
(***************************************************************************)
process_frame_raises(w) ==
    /\ \/ reqs[w].pc = "await"
       \/ reqs[w].pc = "loop" /\ reqs[w].encodings # <<>>
    /\ last' = Response("process_frame", reqs[w].session_id, 500,
                        reqs[w].frame_num, reqs[w].faces_detected, <<>>, 0)
    /\ reqs' = [reqs EXCEPT ![w] = IdleReq]
    /\ UNCHANGED <<sessions, session_frame_counters, raw_detections,
                   attendance_logs, students, face_embeddings, now, users,
                   frames_issued>>

(***************************************************************************)
(* SpecFailures: one server process, process_frame statement by statement, *)
(* with a face capability that can raise at each of its calls.             *)
(***************************************************************************)
StatementRaises == process_frame_raises(MainWorker)

NextFailures ==
    \/ StartSession
    \/ StatementFrameBegin
    \/ StatementRead
    \/ StatementIdentify
    \/ StatementLogRaw
    \/ StatementCount
    \/ StatementExisting
    \/ StatementAvg
    \/ StatementMark
    \/ StatementReturn
    \/ StatementRaises
    \/ EndSession

SpecFailures == Init /\ [][NextFailures]_vars

(***************************************************************************)
(* SpecInterleaved: one server process serving two sessions, with a        *)
(* process_frame call of each in flight at the same time and start_session *)
(* and end_session coming in between.                                      *)
(***************************************************************************)
\* the faces shown to both sessions: student 1, or a stranger
InterleavedFrameBody ==
    \E r \in Slots, encodings \in WorkerFrames :
        process_frame_body(r, encodings)

NextInterleaved ==
    \/ StartSessions
    \/ ConcurrentFrameBegin
    \/ InterleavedFrameBody
    \/ EndSession

SpecInterleaved == Init /\ [][NextInterleaved]_vars

(***************************************************************************)
(* auth.py: register (lines 12-24) and login (lines 26-33) on the table    *)
(* "users".  app/core/security.py is not part of the sources at hand: a    *)
(* hash is modelled as a value that is not the password and that           *)
(* verify_password accepts for the password it was made from and for no    *)
(* other; a token is modelled by its "sub" claim.                          *)
(***************************************************************************)
Usernames == {"testuser", "otheruser"}
Passwords == {"password123", "wrongpassword", "secret"}

get_password_hash(password) == <<"hash", password>>

verify_password(plain_password, hashed_password) ==
    hashed_password = get_password_hash(plain_password)

create_access_token(data) == <<"sub", data.sub>>

NoToken == <<>>

UserRows(rows, username) == {u \in rows : u.username = username}

AuthResponse(op, username, password, status, access_token) ==
    [op |-> op, session_id |-> 0, status |-> status, username |-> username,
     password |-> password, access_token |-> access_token,
     token_type |-> IF access_token = NoToken THEN "" ELSE "bearer"]

register(username, password) ==
    /\ IF UserRows(users, username) # {}
       THEN /\ last' = AuthResponse("register", username, password, 400, NoToken)
            /\ UNCHANGED users
       ELSE LET new_user == [username |-> username,
                             hashed_password |-> get_password_hash(password)]
            IN /\ users' = users \cup {new_user}
               /\ last' = AuthResponse("register", username, password, 200,
                              create_access_token([sub |-> new_user.username]))
    /\ UNCHANGED <<sessions, session_frame_counters, raw_detections,
                   attendance_logs, students, face_embeddings, now, reqs,
                   frames_issued>>

\* login without the password check of line 29
login_any_password(username, password) ==
    /\ IF UserRows(users, username) = {}
       THEN last' = AuthResponse("login", username, password, 401, NoToken)
       ELSE LET user == CHOOSE u \in UserRows(users, username) : TRUE
            IN last' = AuthResponse("login", username, password, 200,
                           create_access_token([sub |-> user.username]))
    /\ UNCHANGED <<sessions, session_frame_counters, raw_detections,
                   attendance_logs, students, face_embeddings, now, users,
                   reqs, frames_issued>>

login(username, password) ==
    /\ IF \/ UserRows(users, username) = {}
          \/ ~verify_password(password,
                 (CHOOSE u \in UserRows(users, username) : TRUE).hashed_password)
       THEN last' = AuthResponse("login", username, password, 401, NoToken)
       ELSE LET user == CHOOSE u \in UserRows(users, username) : TRUE
            IN last' = AuthResponse("login", username, password, 200,
                           create_access_token([sub |-> user.username]))
    /\ UNCHANGED <<sessions, session_frame_counters, raw_detections,
                   attendance_logs, students, face_embeddings, now, users,
                   reqs, frames_issued>>

(***************************************************************************)
(* SpecAuth: register and login calls in any order.                        *)
(***************************************************************************)
Register == \E username \in Usernames, password \in Passwords :
                register(username, password)
Login == \E username \in Usernames, password \in Passwords :
             login(username, password)

NextAuth ==
    \/ Register
    \/ Login

SpecAuth == Init /\ [][NextAuth]_vars

(***************************************************************************)
(* SpecTies: FaceLogic.identify_face on a fixed store, with the rows of    *)
(* db.query(FaceEmbedding).all() (line 49) in any order: the query has no  *)
(* ORDER BY, so the database is free in the order it returns them.         *)
(***************************************************************************)
RowOrders(embs) ==
    {rows \in [1..Cardinality(embs) -> embs] :
        \A i, j \in 1..Cardinality(embs) : i # j => rows[i] # rows[j]}

call_identify_face_rows(probe, all_embeddings) ==
    /\ LET m == identify_face_rows(probe, all_embeddings, students,
                                   SIMILARITY_THRESHOLD)
       IN last' = Response("identify_face", 0, 200, 0, 0,
                           <<[probe |-> probe, student |-> m.student,
                              dist |-> m.dist]>>, 0)
    /\ UNCHANGED <<sessions, session_frame_counters, raw_detections,
                   attendance_logs, students, face_embeddings, now, users,
                   reqs, frames_issued>>

NextTies ==
    \E probe \in [EmbIds -> MatcherDistances],
       all_embeddings \in RowOrders(face_embeddings) :
        call_identify_face_rows(probe, all_embeddings)

SpecTies == InitMatcher /\ [][NextTies]_vars

TypeOK ==
    /\ now \in 0..MaxTime
    /\ Len(sessions) <= Cardinality(SessionIds)
    /\ \A r \in Slots : reqs[r].pc \in {"idle", "await", "loop", "log", "count",
                                     "existing", "avg", "mark"}
    /\ \A u \in users : /\ u.username \in Usernames
                        /\ \E p \in Passwords :
                              u.hashed_password = get_password_hash(p)

(***************************************************************************)
(* Measures used by the properties, taken directly on the tables.          *)
(***************************************************************************)
LogRows(sid, student) ==
    {i \in 1..Len(attendance_logs) :
        /\ attendance_logs[i].session_id = sid
        /\ attendance_logs[i].student_id = student}

PresentRows(sid, student) ==
    {i \in LogRows(sid, student) : attendance_logs[i].status = "PRESENT"}

RawRows(sid, student) ==
    {i \in 1..Len(raw_detections) :
        /\ raw_detections[i].session_id = sid
        /\ raw_detections[i].student_id = student}

RawRowsInWindow(sid, student, t) ==
    {i \in RawRows(sid, student) :
        /\ raw_detections[i].timestamp >= t - 30
        /\ raw_detections[i].timestamp <= t}

(***************************************************************************)
(* C1: for every session and every student there is at most one           *)
(* AttendanceLog row with status PRESENT, whatever calls were made.        *)
(***************************************************************************)
C1_AtMostOnePresent ==
    \A sid \in SessionIds, st \in StudentIds :
        Cardinality(PresentRows(sid, st)) <= 1

\* a student marked PRESENT who was detected again afterwards
C1_Witness ==
    \E sid \in SessionIds, st \in StudentIds :
        /\ Cardinality(PresentRows(sid, st)) = 1
        /\ Cardinality(RawRows(sid, st)) > REQUIRED_CONSECUTIVE_FRAMES

(***************************************************************************)
(* C2: when process_frame calls on one session run concurrently, an        *)
(* AttendanceLog row of (session, student) is inserted only while the pair *)
(* has no row: of the calls that reach the threshold at most one inserts.  *)
(***************************************************************************)
C2_OneConcurrentInsert ==
    [][\A sid \in SessionIds, student \in StudentIds :
          LogRows(sid, student)' # LogRows(sid, student)
              => LogRows(sid, student) = {}]_vars

(***************************************************************************)
(* C3: every PRESENT row of (session, student) was created when at least   *)
(* REQUIRED_CONSECUTIVE_FRAMES RawDetection rows of that same session and  *)
(* student lay in the 30 second window ending at the evaluation time.      *)
(***************************************************************************)
C3_PresentOnlyAfterThreshold ==
    \A i \in 1..Len(attendance_logs) :
        LET l == attendance_logs[i] IN
        l.status = "PRESENT" =>
            Cardinality(RawRowsInWindow(l.session_id, l.student_id, l.timestamp))
                >= REQUIRED_CONSECUTIVE_FRAMES

\* a PRESENT row while the same session also holds detections of another student
C3_Witness ==
    \E i \in 1..Len(attendance_logs) :
        \E k \in 1..Len(raw_detections) :
            /\ attendance_logs[i].status = "PRESENT"
            /\ raw_detections[k].session_id = attendance_logs[i].session_id
            /\ raw_detections[k].student_id # attendance_logs[i].student_id

(***************************************************************************)
(* C4: a process_frame call on a session that does not exist or is not     *)
(* active fails with status 400 and changes neither the frame counters nor *)
(* any table.                                                              *)
(***************************************************************************)
C4_InactiveRejected ==
    [][\A r \in Slots, sid \in SessionIds :
          (process_frame_begin(MainWorker, r, sid, MaxFrames) /\ ~SessionActive(sid)) =>
              /\ last'.op = "process_frame"
              /\ last'.status = 400
              /\ UNCHANGED <<sessions, session_frame_counters, raw_detections,
                             attendance_logs, frames_issued, reqs>>]_vars

\* the call was rejected on a session that was ended after taking detections
C4_Witness ==
    /\ last.op = "process_frame"
    /\ last.status = 400
    /\ SessionExists(last.session_id)
    /\ ~sessions[last.session_id].is_active
    /\ \E k \in 1..Len(raw_detections) :
           raw_detections[k].session_id = last.session_id

C7_NeverReopened ==
    [][/\ \A sid \in 1..Len(sessions) :
              /\ sid \in 1..Len(sessions')
              /\ ~sessions[sid].is_active => ~sessions'[sid].is_active
       /\ \A sid \in (Len(sessions) + 1)..Len(sessions') :
              sessions'[sid].is_active]_vars

\* a session that was ended stays ended while a later session is started
C7_Witness ==
    /\ last.op = "start_session"
    /\ last.session_id = 2
    /\ ~sessions[1].is_active
    /\ sessions[2].is_active

(***************************************************************************)
(* The step in which a process_frame call in flight runs to its return.    *)
(***************************************************************************)
FrameReturns(r) == reqs[r].pc # "idle" /\ reqs'[r].pc = "idle"

\* the entries of a response that name the student
EntriesOf(recognized, student) ==
    {k \in 1..Len(recognized) : recognized[k].student = student}

\* the number of the student's entries up to and including entry k
RankOf(recognized, student, k) ==
    Cardinality({j \in EntriesOf(recognized, student) : j <= k})

(***************************************************************************)
(* C8: in a call that matches a student, a face evaluated while the pair   *)
(* has no AttendanceLog reports pending as long as the in-window count is  *)
(* below REQUIRED_CONSECUTIVE_FRAMES, the first evaluation that reaches it *)
(* creates the one AttendanceLog in that call and reports marked, and      *)
(* every evaluation after an AttendanceLog exists reports already-marked.  *)
(***************************************************************************)
C8_MarkedAtFirstCrossing ==
    [][\A r \in Slots, sid \in SessionIds :
          (FrameReturns(r) /\ reqs[r].session_id = sid) =>
          LET rec == last'.recognized
          IN \A st \in StudentIds : \A k \in EntriesOf(rec, st) :
                 LET before == Cardinality(RawRowsInWindow(sid, st, now))
                     count == before + RankOf(rec, st, k)
                 IN IF LogRows(sid, st) # {}
                    THEN /\ rec[k].tag = "already"
                         /\ LogRows(sid, st)' = LogRows(sid, st)
                    ELSE /\ count < REQUIRED_CONSECUTIVE_FRAMES =>
                                rec[k].tag = "pending"
                         /\ count = REQUIRED_CONSECUTIVE_FRAMES =>
                                /\ rec[k].tag = "marked"
                                /\ Cardinality(LogRows(sid, st)') = 1
                         /\ count > REQUIRED_CONSECUTIVE_FRAMES =>
                                rec[k].tag = "already"]_vars

\* a response that reports marked for a student and then already-marked
C8_Witness ==
    /\ last.op = "process_frame"
    /\ \E j, k \in 1..Len(last.recognized) :
           /\ j < k
           /\ last.recognized[j].tag = "marked"
           /\ last.recognized[k].tag = "already"
           /\ last.recognized[k].student = last.recognized[j].student
    /\ \E k \in 1..Len(raw_detections) : raw_detections[k].frame_number = 1

(***************************************************************************)
(* C9 as stated: once an AttendanceLog exists for (session, student), no   *)
(* step changes the AttendanceLog rows or the RawDetection rows of that    *)
(* pair.                                                                   *)
(***************************************************************************)
C9_NoWritesOnceMarked ==
    [][\A sid \in SessionIds, st \in StudentIds :
          LogRows(sid, st) # {} =>
              /\ LogRows(sid, st)' = LogRows(sid, st)
              /\ RawRows(sid, st)' = RawRows(sid, st)]_vars

(***************************************************************************)
(* C9 as amended: once an AttendanceLog exists for (session, student), a   *)
(* call that matches the student reports already-marked for each matching  *)
(* face and leaves the AttendanceLog rows of the pair unchanged, and it    *)
(* appends one RawDetection row per matching face.                         *)
(***************************************************************************)
C9_OnlyRawDetectionsOnceMarked ==
    [][\A sid \in SessionIds, st \in StudentIds :
          LogRows(sid, st) # {} =>
              /\ LogRows(sid, st)' = LogRows(sid, st)
              /\ RawRows(sid, st) \subseteq RawRows(sid, st)'
              /\ \A r \in Slots :
                     (FrameReturns(r) /\ reqs[r].session_id = sid) =>
                         /\ \A k \in EntriesOf(last'.recognized, st) :
                                last'.recognized[k].tag = "already"
                         /\ Cardinality(RawRows(sid, st)') =
                                Cardinality(RawRows(sid, st))
                                + Cardinality(EntriesOf(last'.recognized, st))
              /\ (\A r \in Slots : ~(FrameReturns(r) /\ reqs[r].session_id = sid))
                     => RawRows(sid, st)' = RawRows(sid, st)]_vars

\* a student detected again after the AttendanceLog was written
C9_Witness ==
    \E sid \in SessionIds, st \in StudentIds :
        \E i \in LogRows(sid, st) : \E k \in RawRows(sid, st) :
            /\ i = 1
            /\ k = Len(raw_detections)
            /\ k > REQUIRED_CONSECUTIVE_FRAMES
            /\ last.op = "process_frame"

(***************************************************************************)
(* C10: a RawDetection older than 30 seconds at the evaluation is not      *)
(* counted: the count a response reports for a student is the number of    *)
(* the pair's RawDetections inside the window, and while that number is    *)
(* below REQUIRED_CONSECUTIVE_FRAMES the student is reported pending and   *)
(* no AttendanceLog is written.                                            *)
(***************************************************************************)
C10_ExpiredNotCounted ==
    (last.op = "process_frame" /\ last.status = 200 /\ Len(last.recognized) > 0)
    => LET e == last.recognized[Len(last.recognized)]
           sid == last.session_id
           inside == Cardinality(RawRowsInWindow(sid, e.student, now))
       IN e.student # None =>
              /\ e.count = inside
              /\ e.tag = "pending" <=>
                     (inside < REQUIRED_CONSECUTIVE_FRAMES /\ LogRows(sid, e.student) = {})
              /\ (inside < REQUIRED_CONSECUTIVE_FRAMES /\ e.tag # "pending")
                     => e.tag = "already"

\* the third detection came after the first had left the window: pending 2 of 3
C10_Witness ==
    /\ last.op = "process_frame"
    /\ Len(last.recognized) > 0
    /\ LET e == last.recognized[Len(last.recognized)] IN
        /\ e.tag = "pending"
        /\ e.count = 2
        /\ Cardinality(RawRows(last.session_id, e.student)) = 3

(***************************************************************************)
(* C11: on a non-empty store identify_face returns the minimum of the      *)
(* probe's distances to all stored embeddings; below the threshold it      *)
(* returns with it the owner of an embedding at that distance, otherwise   *)
(* no student.                                                             *)
(***************************************************************************)
MinDistance(probe) ==
    LET ds == {probe[e.id] : e \in face_embeddings}
    IN CHOOSE d \in ds : \A x \in ds : d <= x

C11_MinimumDistanceMatch ==
    (last.op = "identify_face" /\ face_embeddings # {}) =>
        LET r == last.recognized[1]
            min == MinDistance(r.probe)
        IN /\ r.dist = min
           /\ IF min < SIMILARITY_THRESHOLD
              THEN \E e \in face_embeddings : /\ e.student_id = r.student
                                              /\ r.probe[e.id] = min
              ELSE r.student = None

\* three embeddings, the nearest one stored last and owned by student 2
C11_Witness ==
    /\ last.op = "identify_face"
    /\ face_embeddings = {[id |-> 1, student_id |-> 1],
                          [id |-> 2, student_id |-> 1],
                          [id |-> 3, student_id |-> 2]}
    /\ last.recognized[1].probe = <<180, 90, 60>>
    /\ last.recognized[1].student = 2
    /\ last.recognized[1].dist = 60

(***************************************************************************)
(* C12: a face whose minimum distance to the stored embeddings equals the  *)
(* threshold is not a match: the call reports it as unknown and goes on to *)
(* the next face without writing a RawDetection.                           *)
(***************************************************************************)
C12_ThresholdIsNotAMatch ==
    [][\A w \in Workers :
          (/\ reqs[w].pc = "loop"
           /\ reqs[w].encodings # <<>>
           /\ reqs'[w] # reqs[w]
           /\ face_embeddings # {}
           /\ MinDistance(Head(reqs[w].encodings)) = SIMILARITY_THRESHOLD)
          => /\ reqs'[w].pc = "loop"
             /\ reqs'[w].encodings = Tail(reqs[w].encodings)
             /\ reqs'[w].recognized =
                    Append(reqs[w].recognized, FaceResult("unknown", None, 0))
             /\ raw_detections' = raw_detections
             /\ attendance_logs' = attendance_logs]_vars

\* a frame of one face at exactly the threshold has been answered
C12_Witness ==
    /\ last.op = "process_frame"
    /\ last.status = 200
    /\ last.faces_detected = 1
    /\ last.recognized = <<FaceResult("unknown", None, 0)>>
    /\ raw_detections = <<>>
    /\ face_embeddings # {}

(***************************************************************************)
(* C13: a frame processed while the embedding store is empty is answered   *)
(* normally, with every detected face unknown, and creates no RawDetection *)
(* and no AttendanceLog row.                                               *)
(***************************************************************************)
C13_EmptyStoreAllUnknown ==
    [][\A r \in Slots :
          (FrameReturns(r) /\ face_embeddings = {})
          => /\ last'.status = 200
             /\ \A k \in 1..Len(last'.recognized) :
                    last'.recognized[k] = FaceResult("unknown", None, 0)
             /\ Len(last'.recognized) = last'.faces_detected
             /\ raw_detections' = raw_detections
             /\ attendance_logs' = attendance_logs]_vars

\* both students deleted, then a frame with two faces
C13_Witness ==
    /\ face_embeddings = {}
    /\ last.op = "process_frame"
    /\ last.status = 200
    /\ last.faces_detected = 2
    /\ last.recognized = <<FaceResult("unknown", None, 0),
                           FaceResult("unknown", None, 0)>>

(***************************************************************************)
(* C14: the confidence of an AttendanceLog row, at its creation, is 1      *)
(* minus the mean distance of the RawDetections of its (session, student)  *)
(* inside the window.                                                      *)
(***************************************************************************)
WindowDistances(raws, sid, student, t) ==
    LET rows == SetToSortedSeq({i \in 1..Len(raws) :
                                   /\ raws[i].session_id = sid
                                   /\ raws[i].student_id = student
                                   /\ raws[i].timestamp >= t - 30})
    IN [k \in 1..Len(rows) |-> raws[rows[k]].distance]

C14_ConfidenceIsOneMinusMean ==
    [][Len(attendance_logs') = Len(attendance_logs) + 1 =>
          LET row == attendance_logs'[Len(attendance_logs')]
              ds == WindowDistances(raw_detections', row.session_id,
                                    row.student_id, now)
          IN row.confidence_score * Len(ds) = One * Len(ds) - SumSeq(ds)]_vars

C16_ReportOfEveryRow ==
    last.op = "get_session_report" =>
        LET rows == SetToSortedSeq({i \in 1..Len(attendance_logs) :
                        attendance_logs[i].session_id = last.session_id})
        IN /\ last.status = 200
           /\ Len(last.recognized) = Len(rows)
           /\ \A k \in 1..Len(rows) :
                  /\ last.recognized[k].student_id \in StudentIds
                  /\ last.recognized[k].status = attendance_logs[rows[k]].status
                  /\ last.recognized[k].confidence =
                         attendance_logs[rows[k]].confidence_score

(***************************************************************************)
(* C17: end_session writes the session's own row and nothing else: the     *)
(* RawDetection and AttendanceLog tables, of this and of every other       *)
(* session, and the rows of the other sessions are the same before and     *)
(* after the call.                                                         *)
(***************************************************************************)
C17_EndSessionKeepsTables ==
    [][last'.op = "end_session" =>
          /\ raw_detections' = raw_detections
          /\ attendance_logs' = attendance_logs
          /\ Len(sessions') = Len(sessions)
          /\ \A s \in 1..Len(sessions) :
                 s # last'.session_id => sessions'[s] = sessions[s]]_vars

\* session 1 is ended with a marked student and three detections on record
C17_Witness ==
    /\ last.op = "end_session"
    /\ last.status = 200
    /\ last.session_id = 1
    /\ Len(sessions) = 2
    /\ LogRows(1, 1) # {}
    /\ Cardinality(RawRows(1, 1)) >= 3

(***************************************************************************)
(* C18: an enrollment of a new student id is rejected only when its images *)
(* gave no valid embedding, and a rejected enrollment leaves no Student    *)
(* and no embedding of that student behind.                                *)
(***************************************************************************)
EmbeddingsOf(student) == {e \in face_embeddings : e.student_id = student}

C18_RejectedOnlyWithoutEmbedding ==
    (/\ last.op = "enroll_student"
     /\ last.status # 200
     /\ last.recognized[1].detail # "Student ID already exists")
    => /\ ValidImages(last.recognized[1].images) = {}
       /\ last.recognized[1].student_id \notin students
       /\ EmbeddingsOf(last.recognized[1].student_id) = {}

C20_UndecodableFrameIsAResult ==
    [][\A r \in Slots :
          FrameReturns(r) =>
              /\ last'.op = "process_frame"
              /\ last'.status = 200
              /\ last'.frame = reqs[r].frame_num
              /\ sessions' = sessions
              /\ session_frame_counters' = session_frame_counters]_vars

(***************************************************************************)
(* C21: a process_frame call in which the face capability raises is        *)
(* answered as a failed frame and leaves no trace: the frame counter of    *)
(* the session is what it was before the call (one less than the number    *)
(* the call took), no RawDetection carries the call's frame number and the *)
(* call has inserted no AttendanceLog, also when earlier faces of the      *)
(* frame were handled before the failure.                                  *)
(***************************************************************************)
C21_FailedFrameLeavesNoTrace ==
    [][\A r \in Slots :
          (FrameReturns(r) /\ last'.status = 500) =>
              /\ CounterGet(session_frame_counters'[reqs[r].worker],
                            reqs[r].session_id) = reqs[r].frame_num - 1
              /\ \A i \in 1..Len(raw_detections') :
                    ~(/\ raw_detections'[i].session_id = reqs[r].session_id
                      /\ raw_detections'[i].frame_number = reqs[r].frame_num)
              /\ \A k \in 1..Len(reqs[r].recognized) :
                    reqs[r].recognized[k].tag # "marked"]_vars

(***************************************************************************)
(* C22: sessions share no mutable state.  A step of a call on one session  *)
(* leaves every other session's frame counter, row (active flag and end    *)
(* time), RawDetection rows and AttendanceLog rows as they are, and the    *)
(* detection count reported for a student in a frame of a session is never *)
(* more than the number of RawDetection rows of that session and student.  *)
(***************************************************************************)
StepOn(b) ==
    \/ last'.session_id = b
    \/ \E r \in Slots :
          /\ reqs'[r] # reqs[r]
          /\ reqs[r].session_id = b \/ reqs'[r].session_id = b

RawsOfSession(raws, b) == SelectSeq(raws, LAMBDA x : x.session_id = b)
LogsOfSession(logs, b) == SelectSeq(logs, LAMBDA x : x.session_id = b)

C22_SessionsAreIsolated ==
    [][/\ \A b \in SessionIds :
             ~StepOn(b) =>
                 /\ \A w \in Workers :
                       session_frame_counters'[w][b] = session_frame_counters[w][b]
                 /\ IF b <= Len(sessions)
                    THEN b <= Len(sessions') /\ sessions'[b] = sessions[b]
                    ELSE Len(sessions') < b
                 /\ RawsOfSession(raw_detections', b)
                        = RawsOfSession(raw_detections, b)
                 /\ LogsOfSession(attendance_logs', b)
                        = LogsOfSession(attendance_logs, b)
       /\ \A r \in Slots :
             (FrameReturns(r) /\ last'.status = 200) =>
                 \A k \in 1..Len(last'.recognized) :
                     last'.recognized[k].student # None =>
                         last'.recognized[k].count <=
                             Cardinality({i \in 1..Len(raw_detections') :
                                 /\ raw_detections'[i].session_id
                                        = last'.session_id
                                 /\ raw_detections'[i].student_id
                                        = last'.recognized[k].student})]_vars

\* a frame of session 2 reports a count for a student while session 1,
\* still active, holds detections of the same student that are not counted
C22_Witness ==
    /\ last.op = "process_frame" /\ last.status = 200 /\ last.session_id = 2
    /\ SessionActive(1)
    /\ \E k \in 1..Len(last.recognized) :
          /\ last.recognized[k].student # None
          /\ \E i \in 1..Len(raw_detections) :
                /\ raw_detections[i].session_id = 1
                /\ raw_detections[i].student_id = last.recognized[k].student
          /\ last.recognized[k].count <
                 Cardinality({i \in 1..Len(raw_detections) :
                     raw_detections[i].student_id = last.recognized[k].student})

(***************************************************************************)
(* C23: register and login.  A register call for a new username stores a   *)
(* row whose hash verifies exactly the password given; a register call for *)
(* a registered username is answered 400 and changes no row; no step ever  *)
(* changes or removes a stored row, and no username has two rows; a login  *)
(* is answered 200 with a bearer token of the user exactly when a row of   *)
(* the username exists and the password given is the one its hash was made *)
(* from, and is answered 401 without a token otherwise.                    *)
(***************************************************************************)
C23_LoginIffRegisteredPassword ==
    [][/\ users \subseteq users'
       /\ \A u \in Usernames : Cardinality(UserRows(users', u)) <= 1
       /\ last'.op = "register" =>
             IF UserRows(users, last'.username) # {}
             THEN /\ last'.status = 400 /\ last'.access_token = NoToken
                  /\ users' = users
             ELSE /\ last'.status = 200
                  /\ last'.access_token # NoToken /\ last'.token_type = "bearer"
                  /\ \E row \in UserRows(users', last'.username) :
                        /\ users' = users \cup {row}
                        /\ row.hashed_password # last'.password
                        /\ \A p \in Passwords :
                              verify_password(p, row.hashed_password)
                                  <=> p = last'.password
       /\ last'.op = "login" =>
             /\ users' = users
             /\ IF \E row \in UserRows(users, last'.username) :
                      row.hashed_password = get_password_hash(last'.password)
                THEN /\ last'.status = 200
                     /\ last'.access_token
                            = create_access_token([sub |-> last'.username])
                     /\ last'.token_type = "bearer"
                ELSE /\ last'.status = 401
                     /\ last'.access_token = NoToken]_vars

\* a login with the wrong password has just failed for a registered user,
\* while another user is registered with that very password
C23_Witness ==
    /\ last.op = "login" /\ last.status = 401
    /\ UserRows(users, last.username) # {}
    /\ \E row \in users :
          /\ row.username # last.username
          /\ verify_password(last.password, row.hashed_password)

(***************************************************************************)
(* C24: the end of a session halts ingestion under every interleaving.     *)
(* Once end_session has committed the session as ended, no step adds a     *)
(* RawDetection or an AttendanceLog of that session, also not a            *)
(* process_frame call that passed the check of lines 39-41 before.         *)
(***************************************************************************)
C24_NoRowsAfterEnd ==
    [][\A sid \in SessionIds :
          (SessionExists(sid) /\ ~sessions[sid].is_active) =>
              /\ RawsOfSession(raw_detections', sid)
                     = RawsOfSession(raw_detections, sid)
              /\ LogsOfSession(attendance_logs', sid)
                     = LogsOfSession(attendance_logs, sid)]_vars

(***************************************************************************)
(* C25: a student is PRESENT in a session only after being matched in at   *)
(* least REQUIRED_CONSECUTIVE_FRAMES distinct frames: wherever the ledger   *)
(* holds a PRESENT row, the RawDetections of that session and student      *)
(* carry at least that many different frame numbers.                       *)
(***************************************************************************)
FramesOf(sid, student) ==
    {raw_detections[i].frame_number : i \in RawRows(sid, student)}

C25_PresentAfterDistinctFrames ==
    \A sid \in SessionIds, student \in StudentIds :
        PresentRows(sid, student) # {} =>
            Cardinality(FramesOf(sid, student)) >= REQUIRED_CONSECUTIVE_FRAMES

(***************************************************************************)
(* C26: the end of a session is recorded once.  A session that is ended    *)
(* keeps its end time and its active flag in every later step, also when   *)
(* end_session is called on it again.                                      *)
(***************************************************************************)
C26_EndRecordedOnce ==
    [][\A sid \in SessionIds :
          (SessionExists(sid) /\ ~sessions[sid].is_active) =>
              /\ sessions'[sid].end_time = sessions[sid].end_time
              /\ sessions'[sid].is_active = sessions[sid].is_active]_vars

(***************************************************************************)
(* C27: the frame counter is durable state of the session.  Whichever      *)
(* server process takes a process_frame call of an active session, the     *)
(* frame number it assigns is greater than every frame number assigned in  *)
(* the session before and than the frame number of every RawDetection of   *)
(* the session.                                                            *)
(***************************************************************************)
C27_FrameNumbersSurviveWorkers ==
    [][\A w \in Workers :
          (reqs[w].pc = "idle" /\ reqs'[w].pc = "await") =>
              /\ \A i \in 1..Len(frames_issued[reqs'[w].session_id]) :
                    frames_issued[reqs'[w].session_id][i] < reqs'[w].frame_num
              /\ \A i \in 1..Len(raw_detections) :
                    raw_detections[i].session_id = reqs'[w].session_id
                        => raw_detections[i].frame_number < reqs'[w].frame_num]_vars

(***************************************************************************)
(* C28: embeddings and their students.  Every stored embedding has one     *)
(* owner, a student that exists; an embedding leaves the store only in the *)
(* step that deletes its student; and a frame reports as matched only      *)
(* students that exist and own an embedding when the frame is handled, so  *)
(* never a deleted student or one without embeddings.                      *)
(***************************************************************************)
C28_EmbeddingsFollowStudents ==
    [][/\ \A e \in face_embeddings' : e.student_id \in students'
       /\ \A e1, e2 \in face_embeddings' : e1.id = e2.id => e1 = e2
       /\ \A e \in face_embeddings \ face_embeddings' :
             e.student_id \in students \ students'
       /\ \A r \in Slots :
             (FrameReturns(r) /\ last'.status = 200) =>
                 \A k \in 1..Len(last'.recognized) :
                     last'.recognized[k].student # None =>
                         /\ last'.recognized[k].student \in students
                         /\ EmbeddingsOf(last'.recognized[k].student) # {}]_vars

\* student 1 was deleted with its embedding, and the frame just handled
\* matched student 2 and left another face unknown
C28_Witness ==
    /\ students = {2}
    /\ \A e \in face_embeddings : e.student_id = 2
    /\ face_embeddings # {}
    /\ last.op = "process_frame" /\ last.status = 200
    /\ \E k \in 1..Len(last.recognized) : last.recognized[k].student = 2
    /\ \E k \in 1..Len(last.recognized) : last.recognized[k].student = None

(***************************************************************************)
(* C29: ties at the minimum distance are resolved by a fixed rule that     *)
(* does not depend on the order of the rows: two calls of identify_face    *)
(* with the same probe on the same store return the same student.          *)
(***************************************************************************)
C29_TiesResolvedAlike ==
    [][(/\ last.op = "identify_face" /\ last'.op = "identify_face"
        /\ face_embeddings' = face_embeddings
        /\ last'.recognized[1].probe = last.recognized[1].probe)
           => last'.recognized[1].student = last.recognized[1].student]_vars

(***************************************************************************)
(* C30: tenant isolation.  Student s is enrolled at institution s, and     *)
(* session k is started by a teacher of institution k.  A frame of a       *)
(* session matches only students of the institution of the session, so no  *)
(* RawDetection and no AttendanceLog of a session names a student of       *)
(* another institution.                                                    *)
(***************************************************************************)
StudentInstitution == [s \in StudentIds |-> s]
SessionInstitution == [k \in SessionIds |-> k]

C30_RowsStayInInstitution ==
    /\ \A i \in 1..Len(raw_detections) :
          StudentInstitution[raw_detections[i].student_id]
              = SessionInstitution[raw_detections[i].session_id]
    /\ \A i \in 1..Len(attendance_logs) :
          attendance_logs[i].student_id \in StudentIds =>
              StudentInstitution[attendance_logs[i].student_id]
                  = SessionInstitution[attendance_logs[i].session_id]

====
